---- MODULE Spec2Model ----
(***************************************************************************)
(* EnvSync backend: the sync API (backend/app/api/sync.py) over the        *)
(* sync_states and sync_conflicts tables (backend/app/models/sync.py).     *)
(* Every request handler is one atomic action; the tables are sequences of *)
(* rows in insertion order, a row's id being its position (the code uses a *)
(* fresh uuid4 per row).                                                   *)
(***************************************************************************)
EXTENDS Integers, Sequences, FiniteSets, TLC

\* ---------------------------------------------------------------- bounds
\* Versions a client may claim in a push: SyncPush.local_version is an
\* unconstrained int, so negative numbers are legal request values.
MaxVersion == 1
\* Rows the sync_conflicts table may hold in the model.
MaxConflicts == 2

Versions == (0 - MaxVersion)..MaxVersion

\* ------------------------------------------------------ request alphabets
Users == {"u1", "u2"}
ProjectIds == {"p1", "p2"}
EntityTypes == {"project"}
Payloads == {"d1"}
Checksums == {"h1"}

\* SQL NULL / Python None
NULL == "NULL"
\* the value of datetime.now(timezone.utc) / datetime.utcnow
Now == "now"

\* models/sync.py SyncStatus
SYNCED == "synced"
PENDING == "pending"
CONFLICT == "conflict"
ERROR == "error"
SyncStatus == {SYNCED, PENDING, CONFLICT, ERROR}

\* models/sync.py ConflictResolution
LOCAL_WINS == "local_wins"
REMOTE_WINS == "remote_wins"
MERGED == "merged"
MANUAL == "manual"
ConflictResolution == {LOCAL_WINS, REMOTE_WINS, MERGED, MANUAL, PENDING}

\* HTTP status codes the handlers raise; 200 is a normal return and 500 an
\* exception that escapes the handler (get_db then rolls the session back).
HTTP_404_NOT_FOUND == 404
HTTP_409_CONFLICT == 409
HTTP_503_SERVICE_UNAVAILABLE == 503

VARIABLES
    VEILCLOUD_API_KEY,  \* TRUE iff settings.VEILCLOUD_API_KEY is not None
    projects,           \* projects table: project id -> row
    sync_states,        \* sync_states table: sequence of rows
    sync_conflicts,     \* sync_conflicts table: sequence of rows
    last,               \* the last request (endpoint, caller) and its response
    inflight,           \* per database session: the request it is serving
    variables,          \* variables table: set of rows
    teams,              \* teams table: the slugs of the teams
    team_members,       \* team_members table: set of rows
    team_invites,       \* team_invites table: set of rows
    cli                 \* the command line client: its invocation and output

vars == <<VEILCLOUD_API_KEY, projects, sync_states, sync_conflicts, last, inflight,
          variables, teams, team_members, team_invites, cli>>

\* The state the sync endpoints neither read nor write.
not_sync == <<variables, teams, team_members, team_invites, cli>>

\* The database sessions (get_db opens one per request) that can serve
\* requests at the same time.
Sessions == {"s1", "s2"}

\* A session that serves no request.
Idle == [pc |-> "idle"]

\* Project rows as projects.py create_project leaves them: owned by the
\* creating user, sync_version at the column default 0 (no code writes it).
\* The table holds project p1 of user u1; p2 is an id without a project, and
\* u2 a user without projects.
Project(owner) ==
    [owner_id |-> owner, sync_version |-> 0,
     sync_enabled |-> FALSE, last_synced_at |-> NULL]

Init ==
    /\ VEILCLOUD_API_KEY \in BOOLEAN
    /\ projects = [p \in {"p1"} |-> Project("u1")]
    /\ sync_states = <<>>
    /\ sync_conflicts = <<>>
    /\ last = [op |-> "none"]
    /\ inflight = [s \in Sessions |-> Idle]
    /\ variables = {}
    /\ teams = {}
    /\ team_members = {}
    /\ team_invites = {}
    /\ cli = [pc |-> "none"]

\* select(SyncState).where(user_id).where(entity_type).where(entity_id):
\* the ids of the matching rows.
SelectSyncState(user, entity_type, entity_id) ==
    {i \in 1..Len(sync_states) :
        /\ sync_states[i].user_id = user
        /\ sync_states[i].entity_type = entity_type
        /\ sync_states[i].entity_id = entity_id}

\* The row INSERTed for SyncState(id, user_id, entity_type, entity_id,
\* veilcloud_path) by sync_projects, which assigns status, local_version and
\* remote_version before the flush; base_version and the hashes take their
\* column defaults at INSERT.
NewSyncState(id, user, entity_type, entity_id) ==
    [id |-> id, user_id |-> user,
     entity_type |-> entity_type, entity_id |-> entity_id,
     local_version |-> 0, remote_version |-> 0, base_version |-> 0,
     local_hash |-> NULL, remote_hash |-> NULL,
     status |-> PENDING, last_sync_at |-> NULL, last_local_change |-> NULL]

\* MarkSynced that leaves the row waiting (PENDING) instead of SYNCED.
MarkSynced_Pending(state, project) ==
    [state EXCEPT !.status = PENDING,
                  !.last_sync_at = Now,
                  !.local_version = project.sync_version,
                  !.remote_version = project.sync_version]

\* sync_projects, the body of the loop for one project.
MarkSynced(state, project) ==
    [state EXCEPT !.status = SYNCED,
                  !.last_sync_at = Now,
                  !.local_version = project.sync_version,
                  !.remote_version = project.sync_version]

\* The projects a sync request selects: the caller's, narrowed to
\* project_ids when that list is given and not empty.
SelectProjects(user, project_ids) ==
    {p \in DOMAIN projects :
        /\ projects[p].owner_id = user
        /\ (project_ids # {} => p \in project_ids)}

\* The rows of a table for one entity of one user.
RowsOf(states, user, entity_type, entity_id) ==
    {i \in 1..Len(states) :
        /\ states[i].user_id = user
        /\ states[i].entity_type = entity_type
        /\ states[i].entity_id = entity_id}

\* The UPDATE the unit of work emits at commit: it sets the attributes whose
\* value differs from the one the session loaded, and leaves the other
\* columns as the table holds them.
WriteChanged(current, loaded, new) ==
    [f \in DOMAIN current |-> IF new[f] # loaded[f] THEN new[f] ELSE current[f]]

\* The selected projects whose lookup raises (scalar_one_or_none with
\* several rows): the except clause of the loop records them in errors.
SyncErrors(selected, user, seen) ==
    {p \in selected : Cardinality(RowsOf(seen, user, "project", p)) > 1}

RECURSIVE SyncEach(_, _, _, _)
\* The for loop of sync_projects over the selected projects, and the writes
\* of its commit: seen is the table as the session's SELECTs read it, states
\* the table the commit writes to (the same table when nothing ran between).
SyncEach(todo, user, seen, states) ==
    IF todo = {} THEN states
    ELSE LET p == CHOOSE q \in todo : TRUE
             found == RowsOf(seen, user, "project", p)
             next == IF found = {}
                     THEN Append(states,
                            MarkSynced(NewSyncState(Len(states) + 1, user, "project", p),
                                       projects[p]))
                     ELSE IF Cardinality(found) > 1
                     THEN states
                     ELSE LET i == CHOOSE j \in found : TRUE
                          IN [states EXCEPT
                                ![i] = WriteChanged(@, seen[i],
                                                    MarkSynced(seen[i], projects[p]))]
         IN SyncEach(todo \ {p}, user, seen, next)

\* The SyncResponse of a sync request over the selected projects.
SyncResponse(selected, user, seen) ==
    LET errors == SyncErrors(selected, user, seen)
    IN [status_code |-> 200, success |-> errors = {},
        pushed |-> Cardinality(selected \ errors),
        pulled |-> 0, conflicts |-> 0, errors |-> errors]

\* POST /sync
sync_projects(user, project_ids) ==
    IF ~VEILCLOUD_API_KEY
    THEN /\ last' = [op |-> "sync", user |-> user,
                     status_code |-> HTTP_503_SERVICE_UNAVAILABLE]
         /\ UNCHANGED <<VEILCLOUD_API_KEY, projects, sync_states, sync_conflicts>>
    ELSE LET selected == SelectProjects(user, project_ids)
             errors == SyncErrors(selected, user, sync_states)
         IN /\ sync_states' = SyncEach(selected, user, sync_states, sync_states)
            /\ projects' = [p \in DOMAIN projects |->
                              IF p \in selected \ errors
                              THEN [projects[p] EXCEPT !.sync_enabled = TRUE,
                                                       !.last_synced_at = Now]
                              ELSE projects[p]]
            /\ last' = [op |-> "sync", user |-> user]
                          @@ SyncResponse(selected, user, sync_states)
            /\ UNCHANGED <<VEILCLOUD_API_KEY, sync_conflicts>>

\* ConflictDetected with the second comparison strict, as if line 163 read
\* data.local_version < sync_state.base_version.
ConflictDetected_Strict(state, local_version) ==
    /\ state.remote_version > state.base_version
    /\ local_version < state.base_version

\* push_changes line 163: the conflict test.
ConflictDetected(state, local_version) ==
    /\ state.remote_version > state.base_version
    /\ local_version <= state.base_version

\* NewSyncConflict with the pushed payload stored on the remote side, as if
\* lines 168-169 were swapped.
NewSyncConflict_Swapped(id, sync_state_id, local_data) ==
    [id |-> id, sync_state_id |-> sync_state_id,
     local_data |-> "", remote_data |-> local_data,
     resolution |-> PENDING, resolved_data |-> NULL,
     resolved_by_id |-> NULL, detected_at |-> Now, resolved_at |-> NULL]

\* push_changes lines 165-171: the SyncConflict row as INSERTed (resolution
\* and detected_at take their column defaults).
NewSyncConflict(id, sync_state_id, local_data) ==
    [id |-> id, sync_state_id |-> sync_state_id,
     local_data |-> local_data, remote_data |-> "",
     resolution |-> PENDING, resolved_data |-> NULL,
     resolved_by_id |-> NULL, detected_at |-> Now, resolved_at |-> NULL]

\* MarkConflict that also moves base_version up to the remote version.
MarkConflict_MovesBase(state) ==
    [state EXCEPT !.status = CONFLICT, !.base_version = state.remote_version]

\* push_changes line 172
MarkConflict(state) ==
    [state EXCEPT !.status = CONFLICT]

\* AdvanceOnAccept without line 183: base_version is left behind.
AdvanceOnAccept_KeepsBase(state, local_version, checksum) ==
    [state EXCEPT !.local_version = local_version,
                  !.remote_version = local_version,
                  !.local_hash = checksum,
                  !.remote_hash = checksum,
                  !.status = SYNCED,
                  !.last_sync_at = Now,
                  !.last_local_change = Now]

\* push_changes lines 181-188
AdvanceOnAccept(state, local_version, checksum) ==
    [state EXCEPT !.local_version = local_version,
                  !.remote_version = local_version,
                  !.base_version = local_version,
                  !.local_hash = checksum,
                  !.remote_hash = checksum,
                  !.status = SYNCED,
                  !.last_sync_at = Now,
                  !.last_local_change = Now]

\* The SyncPush bodies a client can send.
SyncPush ==
    [entity_type : EntityTypes, entity_id : ProjectIds, data : Payloads,
     local_version : Versions, checksum : Checksums]

\* POST /push
\* A SyncState built at lines 153-159 has no version attributes until it is
\* flushed (SQLAlchemy applies Column defaults at INSERT), so for an entity
\* without a row line 163 compares None > None: a TypeError leaves the
\* handler, the response is 500 and get_db rolls the session back. Several
\* matching rows make scalar_one_or_none raise, with the same outcome.
push_changes(user, data) ==
    LET found == SelectSyncState(user, data.entity_type, data.entity_id)
        req == [op |-> "push", user |-> user]
    IN
    IF ~VEILCLOUD_API_KEY
    THEN /\ last' = req @@ [status_code |-> HTTP_503_SERVICE_UNAVAILABLE]
         /\ UNCHANGED <<VEILCLOUD_API_KEY, projects, sync_states, sync_conflicts>>
    ELSE IF Cardinality(found) # 1
    THEN /\ last' = req @@ [status_code |-> 500]
         /\ UNCHANGED <<VEILCLOUD_API_KEY, projects, sync_states, sync_conflicts>>
    ELSE LET i == CHOOSE j \in found : TRUE
         IN IF ConflictDetected(sync_states[i], data.local_version)
            THEN /\ Len(sync_conflicts) < MaxConflicts
                 /\ sync_conflicts' =
                       Append(sync_conflicts,
                              NewSyncConflict(Len(sync_conflicts) + 1,
                                              sync_states[i].id, data.data))
                 /\ sync_states' = [sync_states EXCEPT ![i] = MarkConflict(@)]
                 /\ last' = req @@ [status_code |-> HTTP_409_CONFLICT,
                                    detail |-> "Sync conflict detected"]
                 /\ UNCHANGED <<VEILCLOUD_API_KEY, projects>>
            ELSE /\ sync_states' =
                       [sync_states EXCEPT
                          ![i] = AdvanceOnAccept(@, data.local_version, data.checksum)]
                 /\ last' = req @@ [status_code |-> 200, success |-> TRUE,
                                    version |-> data.local_version]
                 /\ UNCHANGED <<VEILCLOUD_API_KEY, projects, sync_conflicts>>

\* One entry of SyncPull.entities (List[Dict[str, Any]]): a dict with the
\* keys type and id, with or without the key version, or a dict without the
\* key type, which the schema admits as well.
PullEntities ==
    [type : EntityTypes, id : ProjectIds, version : Versions]
        \cup [type : EntityTypes, id : ProjectIds]
        \cup [id : ProjectIds]

\* sequences over S of length at most n
SeqUpTo(S, n) == UNION {[1..k -> S] : k \in 0..n}

\* Entries of one pull request under SpecPull: as many as there are entity
\* ids, so that a batch can name every entity, or one entity twice.
MaxBatch == Cardinality(ProjectIds)

\* pull_changes line 220: entity.get("version", 0)
KnownVersion(entity) ==
    IF "version" \in DOMAIN entity THEN entity.version ELSE 0

\* pull_changes lines 212-218 for one entry: entity["type"] raises KeyError
\* on a dict without that key, and scalar_one_or_none raises when several
\* rows match. Nothing in the loop catches either.
PullRaises(user, entity) ==
    \/ "type" \notin DOMAIN entity
    \/ Cardinality(SelectSyncState(user, entity.type, entity.id)) > 1

\* PullUpdate that also reports an entity at parity, as if line 220 read
\* sync_state.remote_version >= entity.get("version", 0).
PullUpdate_AtParity(user, entity) ==
    LET found == SelectSyncState(user, entity.type, entity.id)
    IN IF found = {} THEN <<>>
       ELSE LET sync_state == sync_states[CHOOSE j \in found : TRUE]
            IN IF sync_state.remote_version >= KnownVersion(entity)
               THEN <<[type |-> entity.type, id |-> entity.id,
                       version |-> sync_state.remote_version, data |-> ""]>>
               ELSE <<>>

\* pull_changes lines 210-227 for one entry that does not raise: the update
\* appended, if any.
PullUpdate(user, entity) ==
    LET found == SelectSyncState(user, entity.type, entity.id)
    IN IF found = {} THEN <<>>
       ELSE LET sync_state == sync_states[CHOOSE j \in found : TRUE]
            IN IF sync_state.remote_version > KnownVersion(entity)
               THEN <<[type |-> entity.type, id |-> entity.id,
                       version |-> sync_state.remote_version, data |-> ""]>>
               ELSE <<>>

RECURSIVE PullUpdates(_, _)
\* the for loop of pull_changes
PullUpdates(user, entities) ==
    IF entities = <<>> THEN <<>>
    ELSE PullUpdate(user, Head(entities)) \o PullUpdates(user, Tail(entities))

\* POST /pull
\* The loop writes nothing, so the request fails as a whole (500) exactly
\* when one of its entries raises.
pull_changes(user, entities) ==
    LET req == [op |-> "pull", user |-> user, entities |-> entities]
    IN /\ last' = IF ~VEILCLOUD_API_KEY
                  THEN req @@ [status_code |-> HTTP_503_SERVICE_UNAVAILABLE]
                  ELSE IF \E j \in 1..Len(entities) : PullRaises(user, entities[j])
                  THEN req @@ [status_code |-> 500]
                  ELSE req @@ [status_code |-> 200,
                               updates |-> PullUpdates(user, entities)]
       /\ UNCHANGED <<VEILCLOUD_API_KEY, projects, sync_states, sync_conflicts>>

\* The SyncState row a conflict references (SyncConflict.sync_state).
StateOfConflict(conflict) ==
    sync_states[conflict.sync_state_id]

\* PendingConflictsOf without line 242: conflicts of any resolution.
PendingConflictsOf_AnyResolution(user) ==
    {k \in 1..Len(sync_conflicts) :
        StateOfConflict(sync_conflicts[k]).user_id = user}

\* list_conflicts lines 238-243: select(SyncConflict).join(SyncState)
PendingConflictsOf(user) ==
    {k \in 1..Len(sync_conflicts) :
        /\ StateOfConflict(sync_conflicts[k]).user_id = user
        /\ sync_conflicts[k].resolution = PENDING}

\* SyncConflict.sync_state is a relationship() with the default lazy
\* loading. Reading it on a row whose SyncState is not yet in the session
\* loads it: from the identity map when the session already holds the row,
\* else by a query, which an AsyncSession refuses outside a greenlet
\* (MissingGreenlet). Which of the two happens depends on the session the
\* request runs in, so both outcomes are kept.
LazyLoadOutcomes == {"loaded", "MissingGreenlet"}

\* GET /conflicts
list_conflicts(user, lazy) ==
    LET pending == PendingConflictsOf(user)
    IN /\ last' = IF pending # {} /\ lazy = "MissingGreenlet"
                  THEN [op |-> "list", user |-> user, status_code |-> 500]
                  ELSE [op |-> "list", user |-> user, status_code |-> 200,
                        conflicts |->
                           {[id |-> sync_conflicts[k].id,
                             entity_type |-> StateOfConflict(sync_conflicts[k]).entity_type,
                             entity_id |-> StateOfConflict(sync_conflicts[k]).entity_id,
                             local |-> sync_conflicts[k].local_data,
                             remote |-> sync_conflicts[k].remote_data] : k \in pending},
                        total |-> Cardinality(pending)]
       /\ UNCHANGED <<VEILCLOUD_API_KEY, projects, sync_states, sync_conflicts>>

\* The bodies schemas/sync.py ConflictResolution admits: resolution is any
\* member of the ConflictResolution enum, resolved_data is optional.
ResolutionBodies ==
    [resolution : ConflictResolution, resolved_data : {NULL}]
        \cup [resolution : {MERGED}, resolved_data : {"m1"}]

\* SelectConflict without line 275: the conflict of that id, whoever owns it.
SelectConflict_AnyUser(user, conflict_id) ==
    {k \in 1..Len(sync_conflicts) : sync_conflicts[k].id = conflict_id}

\* resolve_conflict lines 271-277
SelectConflict(user, conflict_id) ==
    {k \in 1..Len(sync_conflicts) :
        /\ sync_conflicts[k].id = conflict_id
        /\ StateOfConflict(sync_conflicts[k]).user_id = user}

\* resolve_conflict lines 284-287
ApplyResolution(conflict, data, user) ==
    [conflict EXCEPT !.resolution = data.resolution,
                     !.resolved_data = data.resolved_data,
                     !.resolved_by_id = user,
                     !.resolved_at = Now]

\* resolve_conflict lines 290-291
MarkResolved(state) ==
    [state EXCEPT !.status = SYNCED]

\* POST /conflicts/{conflict_id}/resolve
resolve_conflict(user, conflict_id, data, lazy) ==
    LET found == SelectConflict(user, conflict_id)
        req == [op |-> "resolve", user |-> user]
    IN
    IF found = {}
    THEN /\ last' = req @@ [status_code |-> HTTP_404_NOT_FOUND]
         /\ UNCHANGED <<VEILCLOUD_API_KEY, projects, sync_states, sync_conflicts>>
    ELSE IF lazy = "MissingGreenlet"
    THEN /\ last' = req @@ [status_code |-> 500]
         /\ UNCHANGED <<VEILCLOUD_API_KEY, projects, sync_states, sync_conflicts>>
    ELSE LET k == CHOOSE j \in found : TRUE
             i == sync_conflicts[k].sync_state_id
         IN /\ sync_conflicts' =
                  [sync_conflicts EXCEPT ![k] = ApplyResolution(@, data, user)]
            /\ sync_states' = [sync_states EXCEPT ![i] = MarkResolved(@)]
            /\ last' = req @@ [status_code |-> 200, success |-> TRUE]
            /\ UNCHANGED <<VEILCLOUD_API_KEY, projects>>

Next ==
    \/ \E u \in Users, ids \in SUBSET ProjectIds : sync_projects(u, ids) /\ UNCHANGED <<inflight, not_sync>>
    \/ \E u \in Users, data \in SyncPush : push_changes(u, data) /\ UNCHANGED <<inflight, not_sync>>
    \/ \E u \in Users, entities \in SeqUpTo(PullEntities, 1) :
          pull_changes(u, entities) /\ UNCHANGED <<inflight, not_sync>>
    \/ \E u \in Users, lazy \in LazyLoadOutcomes : list_conflicts(u, lazy) /\ UNCHANGED <<inflight, not_sync>>
    \/ \E u \in Users, c \in 1..MaxConflicts, data \in ResolutionBodies,
          lazy \in LazyLoadOutcomes : resolve_conflict(u, c, data, lazy) /\ UNCHANGED <<inflight, not_sync>>

Spec == Init /\ [][Next]_vars

\* The requests that decide what a pull returns: sync and push change the
\* versions, pull reads them, here with batches of up to MaxBatch entries.
NextPull ==
    \/ \E u \in Users, ids \in SUBSET ProjectIds : sync_projects(u, ids) /\ UNCHANGED <<inflight, not_sync>>
    \/ \E u \in Users, data \in SyncPush : push_changes(u, data) /\ UNCHANGED <<inflight, not_sync>>
    \/ \E u \in Users, entities \in SeqUpTo(PullEntities, MaxBatch) :
          pull_changes(u, entities) /\ UNCHANGED <<inflight, not_sync>>

SpecPull == Init /\ [][NextPull]_vars

\* ---- Requests served at the same time ----
\* Each request runs in its own session and transaction (get_db). A handler
\* awaits its SELECTs, computes on the objects it loaded, and awaits
\* db.commit(), which flushes the INSERTs and UPDATEs; no SELECT takes a lock
\* (no with_for_update) and the engine runs at the default isolation level,
\* so another session can read and commit between the two.

\* The other session.
Other(s) == CHOOSE t \in Sessions : t # s

\* What a session becomes when its request is answered: it keeps the request
\* and the answer while the other session is still between its SELECT and its
\* commit, and both sessions are closed once no request is left in flight.
Answered(s, status_code) ==
    IF inflight[Other(s)].pc = "read"
    THEN [inflight EXCEPT ![s] = [@ EXCEPT !.pc = "done"]
                                    @@ [status_code |-> status_code]]
    ELSE [t \in Sessions |-> Idle]

\* push_changes up to line 150: the 503 and the lookups that raise are
\* answered at once; otherwise the session holds the row it loaded.
push_select(s, user, data) ==
    LET found == SelectSyncState(user, data.entity_type, data.entity_id)
        req == [op |-> "push", user |-> user]
    IN /\ inflight[s].pc = "idle"
       /\ IF ~VEILCLOUD_API_KEY
          THEN /\ last' = req @@ [status_code |-> HTTP_503_SERVICE_UNAVAILABLE]
               /\ UNCHANGED <<inflight, not_sync>>
          ELSE IF Cardinality(found) # 1
          THEN /\ last' = req @@ [status_code |-> 500]
               /\ UNCHANGED <<inflight, not_sync>>
          ELSE /\ inflight' = [inflight EXCEPT ![s] =
                                 [pc |-> "read", op |-> "push", user |-> user,
                                  data |-> data, seen |-> sync_states,
                                  seen_conflicts |-> sync_conflicts]]
               /\ UNCHANGED last
       /\ UNCHANGED <<VEILCLOUD_API_KEY, projects, sync_states, sync_conflicts>>

\* push_changes lines 163-192 for a session that holds a loaded row: the
\* conflict test on the loaded values, then the commit.
push_commit(s) ==
    LET r == inflight[s]
        i == CHOOSE j \in RowsOf(r.seen, r.user, r.data.entity_type, r.data.entity_id) : TRUE
        loaded == r.seen[i]
        req == [op |-> "push", user |-> r.user]
    IN /\ r.pc = "read"
       /\ r.op = "push"
       /\ IF ConflictDetected(loaded, r.data.local_version)
          THEN /\ Len(sync_conflicts) < MaxConflicts
               /\ sync_conflicts' =
                     Append(sync_conflicts,
                            NewSyncConflict(Len(sync_conflicts) + 1,
                                            loaded.id, r.data.data))
               /\ sync_states' = [sync_states EXCEPT
                                    ![i] = WriteChanged(@, loaded, MarkConflict(loaded))]
               /\ last' = req @@ [status_code |-> HTTP_409_CONFLICT,
                                  detail |-> "Sync conflict detected"]
               /\ inflight' = Answered(s, HTTP_409_CONFLICT)
          ELSE /\ sync_states' =
                     [sync_states EXCEPT
                        ![i] = WriteChanged(@, loaded,
                                 AdvanceOnAccept(loaded, r.data.local_version,
                                                 r.data.checksum))]
               /\ last' = req @@ [status_code |-> 200, success |-> TRUE,
                                  version |-> r.data.local_version]
               /\ inflight' = Answered(s, 200)
               /\ UNCHANGED sync_conflicts
       /\ UNCHANGED <<VEILCLOUD_API_KEY, projects>>

\* sync_projects up to line 90 of the last iteration: the projects and the
\* sync states the session loaded.
sync_select(s, user, project_ids) ==
    /\ inflight[s].pc = "idle"
    /\ IF ~VEILCLOUD_API_KEY
       THEN /\ last' = [op |-> "sync", user |-> user,
                        status_code |-> HTTP_503_SERVICE_UNAVAILABLE]
            /\ UNCHANGED <<inflight, not_sync>>
       ELSE /\ inflight' = [inflight EXCEPT ![s] =
                              [pc |-> "read", op |-> "sync", user |-> user,
                               data |-> SelectProjects(user, project_ids),
                               seen |-> sync_states,
                               seen_conflicts |-> sync_conflicts]]
            /\ UNCHANGED last
    /\ UNCHANGED <<VEILCLOUD_API_KEY, projects, sync_states, sync_conflicts>>

\* sync_projects lines 92-127 for a session that holds its loaded rows: a
\* project without a loaded row gets an INSERT, whatever other sessions have
\* committed since (no unique constraint covers user, type and entity).
sync_commit(s) ==
    LET r == inflight[s]
        errors == SyncErrors(r.data, r.user, r.seen)
    IN /\ r.pc = "read"
       /\ r.op = "sync"
       /\ sync_states' = SyncEach(r.data, r.user, r.seen, sync_states)
       /\ projects' = [p \in DOMAIN projects |->
                         IF p \in r.data \ errors
                         THEN [projects[p] EXCEPT !.sync_enabled = TRUE,
                                                  !.last_synced_at = Now]
                         ELSE projects[p]]
       /\ last' = [op |-> "sync", user |-> r.user]
                     @@ SyncResponse(r.data, r.user, r.seen)
       /\ inflight' = Answered(s, 200)
       /\ UNCHANGED <<VEILCLOUD_API_KEY, sync_conflicts>>

NextConcurrent ==
    \/ \E s \in Sessions, u \in Users, data \in SyncPush : push_select(s, u, data) /\ UNCHANGED not_sync
    \/ \E s \in Sessions : push_commit(s) /\ UNCHANGED not_sync
    \/ \E s \in Sessions, u \in Users, ids \in SUBSET ProjectIds :
          sync_select(s, u, ids) /\ UNCHANGED not_sync
    \/ \E s \in Sessions : sync_commit(s) /\ UNCHANGED not_sync

SpecConcurrent == Init /\ [][NextConcurrent]_vars

\* ---- Variables (api/variables.py) ----
\* The largest version a variable reaches in the model.
MaxVarVersion == 3

HTTP_201_CREATED == 201
HTTP_204_NO_CONTENT == 204
HTTP_400_BAD_REQUEST == 400

\* environments table: environment e1 of project p1; e2 is an id without an
\* environment.
EnvironmentIds == {"e1", "e2"}
environments == [e \in {"e1"} |-> [project_id |-> "p1"]]

\* Variable keys, base64 ciphertexts and nonces that clients send, and the
\* ids (uuid4 in the code) the table's rows take.
Keys == {"A", "B"}
Values == {"x1", "x2"}
Nonces == {"n1"}
VariableIds == {1, 2}

\* The state the variable endpoints neither read nor write.
not_variables ==
    <<VEILCLOUD_API_KEY, projects, sync_states, sync_conflicts, inflight,
      teams, team_members, team_invites, cli>>

\* _get_environment_or_404 raises: the project is not the caller's, or the
\* environment is not one of the project.
EnvironmentNotFound(user, project_id, environment_id) ==
    \/ project_id \notin DOMAIN projects
    \/ projects[project_id].owner_id # user
    \/ environment_id \notin DOMAIN environments
    \/ environments[environment_id].project_id # project_id

\* An id no row of the table holds (a fresh uuid4).
FreeId(rows) == CHOOSE i \in VariableIds : \A v \in rows : v.id # i
HasFreeId(rows) == \E i \in VariableIds : \A v \in rows : v.id # i

\* select(Variable).where(environment_id).where(key)
VariablesByKey(rows, environment_id, key) ==
    {v \in rows : v.environment_id = environment_id /\ v.key = key}

\* select(Variable).where(id).where(environment_id)
VariablesById(rows, variable_id, environment_id) ==
    {v \in rows : v.id = variable_id /\ v.environment_id = environment_id}

\* The VariableCreate bodies clients send (metadata at its defaults).
VariableCreate ==
    [key : Keys, encrypted_value : {"x1"}, value_nonce : Nonces,
     description : {NULL}, is_secret : {TRUE}, category : {NULL}]

\* The row INSERTed for Variable(...): version and previous_value_encrypted
\* take their column defaults.
NewVariable(id, environment_id, data) ==
    [id |-> id, environment_id |-> environment_id, key |-> data.key,
     encrypted_value |-> data.encrypted_value, value_nonce |-> data.value_nonce,
     description |-> data.description, is_secret |-> data.is_secret,
     category |-> data.category,
     version |-> 1, previous_value_encrypted |-> NULL]

\* POST .../variables
create_variable(user, project_id, environment_id, data) ==
    LET req == [op |-> "create_variable", user |-> user]
        found == VariablesByKey(variables, environment_id, data.key)
    IN /\ IF EnvironmentNotFound(user, project_id, environment_id)
          THEN /\ last' = req @@ [status_code |-> HTTP_404_NOT_FOUND]
               /\ UNCHANGED variables
          ELSE IF Cardinality(found) > 1
          THEN /\ last' = req @@ [status_code |-> 500]
               /\ UNCHANGED variables
          ELSE IF found # {}
          THEN /\ last' = req @@ [status_code |-> HTTP_400_BAD_REQUEST]
               /\ UNCHANGED variables
          ELSE /\ HasFreeId(variables)
               /\ variables' = variables \cup
                     {NewVariable(FreeId(variables), environment_id, data)}
               /\ last' = req @@ [status_code |-> HTTP_201_CREATED]
       /\ UNCHANGED not_variables

\* BulkEach without line 157: a key created earlier in the batch is not
\* remembered.
RECURSIVE BulkEach_ForgetsBatchKeys(_, _, _, _)
BulkEach_ForgetsBatchKeys(data, environment_id, existing_keys, acc) ==
    IF data = <<>> THEN acc
    ELSE IF Head(data).key \in existing_keys
    THEN BulkEach_ForgetsBatchKeys(Tail(data), environment_id, existing_keys, acc)
    ELSE IF ~HasFreeId(acc.rows)
    THEN [acc EXCEPT !.ok = FALSE]
    ELSE LET id == FreeId(acc.rows)
         IN BulkEach_ForgetsBatchKeys(Tail(data), environment_id, existing_keys,
                     [acc EXCEPT !.rows = @ \cup {NewVariable(id, environment_id, Head(data))},
                                 !.created = Append(@, id)])

\* create_variables_bulk lines 141-157: the loop over the batch. acc holds
\* the table, the ids created so far, and whether the table had room.
RECURSIVE BulkEach(_, _, _, _)
BulkEach(data, environment_id, existing_keys, acc) ==
    IF data = <<>> THEN acc
    ELSE IF Head(data).key \in existing_keys
    THEN BulkEach(Tail(data), environment_id, existing_keys, acc)
    ELSE IF ~HasFreeId(acc.rows)
    THEN [acc EXCEPT !.ok = FALSE]
    ELSE LET id == FreeId(acc.rows)
         IN BulkEach(Tail(data), environment_id,
                     existing_keys \cup {Head(data).key},
                     [acc EXCEPT !.rows = @ \cup {NewVariable(id, environment_id, Head(data))},
                                 !.created = Append(@, id)])

\* POST .../variables/bulk
create_variables_bulk(user, project_id, environment_id, data) ==
    LET req == [op |-> "create_variables_bulk", user |-> user]
        existing_keys == {v.key : v \in {w \in variables :
                                            w.environment_id = environment_id}}
        done == BulkEach(data, environment_id, existing_keys,
                         [rows |-> variables, created |-> <<>>, ok |-> TRUE])
    IN /\ IF EnvironmentNotFound(user, project_id, environment_id)
          THEN /\ last' = req @@ [status_code |-> HTTP_404_NOT_FOUND]
               /\ UNCHANGED variables
          ELSE /\ done.ok
               /\ variables' = done.rows
               /\ last' = req @@ [status_code |-> HTTP_201_CREATED,
                                  created |-> Len(done.created)]
       /\ UNCHANGED not_variables

\* The VariableUpdate bodies clients send: a record of the fields the client
\* set (the schema leaves the others None): a new value with its nonce, the
\* metadata, or both.
VariableUpdate ==
    LET value == {[encrypted_value |-> v, value_nonce |-> n] :
                     v \in Values, n \in Nonces}
        metadata == {[description |-> "text", is_secret |-> FALSE,
                      category |-> "cat"]}
    IN value \cup metadata \cup {v @@ m : v \in value, m \in metadata}

\* update_variable lines 230-233 (and import_env_file lines 327-330): the
\* new value is stored, the old one kept as previous, the version raised.
StoreValue(variable, encrypted_value) ==
    [variable EXCEPT !.previous_value_encrypted = variable.encrypted_value,
                     !.encrypted_value = encrypted_value,
                     !.version = variable.version + 1]

\* update_variable lines 229-241
ApplyVariableUpdate(variable, data) ==
    LET a == IF "encrypted_value" \in DOMAIN data
             THEN StoreValue(variable, data.encrypted_value) ELSE variable
        b == IF "value_nonce" \in DOMAIN data
             THEN [a EXCEPT !.value_nonce = data.value_nonce] ELSE a
        c == IF "description" \in DOMAIN data
             THEN [b EXCEPT !.description = data.description] ELSE b
        d == IF "is_secret" \in DOMAIN data
             THEN [c EXCEPT !.is_secret = data.is_secret] ELSE c
    IN IF "category" \in DOMAIN data
       THEN [d EXCEPT !.category = data.category] ELSE d

\* PUT .../variables/{variable_id}
update_variable(user, project_id, environment_id, variable_id, data) ==
    LET req == [op |-> "update_variable", user |-> user]
        found == VariablesById(variables, variable_id, environment_id)
    IN /\ IF EnvironmentNotFound(user, project_id, environment_id) \/ found = {}
          THEN /\ last' = req @@ [status_code |-> HTTP_404_NOT_FOUND]
               /\ UNCHANGED variables
          ELSE LET variable == CHOOSE v \in found : TRUE
                   new == ApplyVariableUpdate(variable, data)
               IN /\ new.version <= MaxVarVersion
                  /\ variables' = (variables \ {variable}) \cup {new}
                  /\ last' = req @@ [status_code |-> 200, id |-> variable_id]
       /\ UNCHANGED not_variables

\* DELETE .../variables/{variable_id}
delete_variable(user, project_id, environment_id, variable_id) ==
    LET req == [op |-> "delete_variable", user |-> user]
        found == VariablesById(variables, variable_id, environment_id)
    IN /\ IF EnvironmentNotFound(user, project_id, environment_id) \/ found = {}
          THEN /\ last' = req @@ [status_code |-> HTTP_404_NOT_FOUND]
               /\ UNCHANGED variables
          ELSE /\ variables' = variables \ found
               /\ last' = req @@ [status_code |-> HTTP_204_NO_CONTENT]
       /\ UNCHANGED not_variables
\* The lines of an imported file: KEY=value::nonce lines for the keys A and
\* B and for 9K, a key that line 306's pattern rejects (it starts with a
\* digit), and a comment line.
ImportLines ==
    {[text |-> "assignment", key |-> "A", encrypted_value |-> "x1", nonce |-> "n1"],
     [text |-> "assignment", key |-> "A", encrypted_value |-> "x2", nonce |-> "n1"],
     [text |-> "assignment", key |-> "B", encrypted_value |-> "x1", nonce |-> "n1"],
     [text |-> "assignment", key |-> "9K", encrypted_value |-> "x1", nonce |-> "n1"],
     [text |-> "comment"]}

\* The EnvFileImport bodies: a content of up to two lines, and overwrite.
EnvFileImport ==
    [content : SeqUpTo(ImportLines, Cardinality(Keys)), overwrite : BOOLEAN]

\* import_env_file lines 310-317: a comment is skipped, and a line matches
\* the pattern only when its key is an identifier.
ParseLine(line) ==
    IF line.text = "assignment" /\ line.key \in Keys
    THEN [matched |-> TRUE, key |-> line.key,
          encrypted_value |-> line.encrypted_value, value_nonce |-> line.nonce,
          description |-> NULL, is_secret |-> TRUE, category |-> NULL]
    ELSE [matched |-> FALSE]

\* import_env_file lines 326-332 for a key that exists
Overwrite(existing, match) ==
    [StoreValue(existing, match.encrypted_value)
        EXCEPT !.value_nonce = match.value_nonce]

RECURSIVE ImportEach(_, _, _, _)
\* import_env_file lines 309-341: the loop over the lines. Each SELECT of
\* line 320 flushes the session first, so it sees the rows the loop added.
\* acc holds the table, the ids appended to imported, whether a lookup
\* raised (several rows of one key) and whether the table had room.
ImportEach(lines, environment_id, overwrite, acc) ==
    IF lines = <<>> \/ acc.raised \/ ~acc.ok THEN acc
    ELSE LET match == ParseLine(Head(lines))
             found == IF match.matched
                      THEN VariablesByKey(acc.rows, environment_id, match.key)
                      ELSE {}
             next ==
               IF ~match.matched THEN acc
               ELSE IF Cardinality(found) > 1 THEN [acc EXCEPT !.raised = TRUE]
               ELSE IF found # {}
               THEN IF overwrite
                    THEN LET existing == CHOOSE v \in found : TRUE
                         IN [acc EXCEPT
                               !.rows = (@ \ {existing})
                                           \cup {Overwrite(existing, match)},
                               !.imported = Append(@, existing.id)]
                    ELSE acc
               ELSE IF ~HasFreeId(acc.rows) THEN [acc EXCEPT !.ok = FALSE]
               ELSE LET id == FreeId(acc.rows)
                    IN [acc EXCEPT
                          !.rows = @ \cup {NewVariable(id, environment_id, match)},
                          !.imported = Append(@, id)]
         IN ImportEach(Tail(lines), environment_id, overwrite, next)

\* POST .../import
import_env_file(user, project_id, environment_id, data) ==
    LET req == [op |-> "import_env_file", user |-> user,
                overwrite |-> data.overwrite]
        done == ImportEach(data.content, environment_id, data.overwrite,
                           [rows |-> variables, imported |-> <<>>,
                            raised |-> FALSE, ok |-> TRUE])
    IN /\ IF EnvironmentNotFound(user, project_id, environment_id)
          THEN /\ last' = req @@ [status_code |-> HTTP_404_NOT_FOUND]
               /\ UNCHANGED variables
          ELSE IF done.raised
          THEN /\ last' = req @@ [status_code |-> 500]
               /\ UNCHANGED variables
          ELSE /\ done.ok
               /\ \A v \in done.rows : v.version <= MaxVarVersion
               /\ variables' = done.rows
               /\ last' = req @@ [status_code |-> 200, imported |-> done.imported]
       /\ UNCHANGED not_variables

NextVariables ==
    \/ \E u \in Users, e \in EnvironmentIds, data \in VariableCreate :
          create_variable(u, "p1", e, data)
    \/ \E u \in Users, e \in EnvironmentIds,
          data \in SeqUpTo(VariableCreate, Cardinality(Keys)) :
          create_variables_bulk(u, "p1", e, data)
    \/ \E u \in Users, e \in EnvironmentIds, id \in VariableIds,
          data \in VariableUpdate : update_variable(u, "p1", e, id, data)
    \/ \E u \in Users, e \in EnvironmentIds, id \in VariableIds :
          delete_variable(u, "p1", e, id)
    \/ \E u \in Users, e \in EnvironmentIds, data \in EnvFileImport :
          import_env_file(u, "p1", e, data)

SpecVariables == Init /\ [][NextVariables]_vars

\* ------------------------------------------------------------ teams
\* src/backend/app/api/teams.py: teams, their members and invitations.

MaxMembers == 2
MaxInvites == 2

HTTP_403_FORBIDDEN == 403

\* TeamRole and InviteStatus (models/team.py lines 14-29).
OWNER == "owner"
ADMIN == "admin"
MEMBER == "member"
VIEWER == "viewer"
TeamRole == {OWNER, ADMIN, MEMBER, VIEWER}
INVITE_PENDING == "pending"
INVITE_ACCEPTED == "accepted"
INVITE_EXPIRED == "expired"

TeamIds == {"t1"}
TeamSlugs == {"s1"}
MemberIds == 1..MaxMembers
Tokens == 1..MaxInvites

\* User.email of each user.
email == [u \in Users |-> IF u = "u1" THEN "u1@x" ELSE "u2@x"]

\* Everything the teams endpoints leave alone.
not_teams ==
    <<VEILCLOUD_API_KEY, projects, sync_states, sync_conflicts, inflight,
      variables, cli>>

\* hashlib.sha256(api_key.encode()).hexdigest()
hash_api_key(api_key) == <<"sha256", api_key>>

\* The request bodies.
TeamCreate == [slug : TeamSlugs]
TeamMemberUpdate == [role : TeamRole \ {VIEWER}] \cup [is_active : BOOLEAN]
TeamInviteCreate == [email : {email[u] : u \in Users}, role : {OWNER, MEMBER}]

\* TeamMember(id, team_id, user_id, role); is_active defaults to True.
NewTeamMember(id, team_id, user_id, role) ==
    [id |-> id, team_id |-> team_id, user_id |-> user_id, role |-> role,
     is_active |-> TRUE]

\* uuid4 for a new member: an id no row holds.
FreeMemberId == CHOOSE i \in MemberIds : \A m \in team_members : m.id # i
HasFreeMemberId == \E i \in MemberIds : \A m \in team_members : m.id # i

\* secrets.token_urlsafe(32): a token no invitation was made with.
FreeToken ==
    CHOOSE k \in Tokens : \A i \in team_invites : i.token_hash # hash_api_key(k)
HasFreeToken ==
    \E k \in Tokens : \A i \in team_invites : i.token_hash # hash_api_key(k)

\* get_team_member: the caller's active memberships of the team.
get_team_member(team_id, user) ==
    {m \in team_members :
        m.team_id = team_id /\ m.user_id = user /\ m.is_active}

\* require_team_admin raises 403: the caller is no active member, or the
\* membership is neither OWNER nor ADMIN.
AdminRequired(team_id, user) ==
    \A m \in get_team_member(team_id, user) : m.role \notin {OWNER, ADMIN}

\* select(TeamMember).where(id == member_id).where(team_id == team_id)
SelectMember(team_id, member_id) ==
    {m \in team_members : m.id = member_id /\ m.team_id = team_id}

\* select(func.count()) of the team's active owners.
owner_count(team_id) ==
    Cardinality({m \in team_members :
                    m.team_id = team_id /\ m.role = OWNER /\ m.is_active})

\* POST /teams
create_team(user, data) ==
    LET req == [op |-> "create_team", user |-> user]
    IN /\ IF \E t \in teams : t.slug = data.slug
          THEN /\ last' = req @@ [status_code |-> HTTP_400_BAD_REQUEST]
               /\ UNCHANGED <<teams, team_members>>
          ELSE /\ HasFreeMemberId
               /\ \E id \in TeamIds :
                     /\ \A t \in teams : t.id # id
                     /\ teams' = teams \cup {[id |-> id, slug |-> data.slug]}
                     /\ team_members' = team_members \cup
                           {NewTeamMember(FreeMemberId, id, user, OWNER)}
               /\ last' = req @@ [status_code |-> HTTP_201_CREATED]
       /\ UNCHANGED <<team_invites, not_teams>>

\* update_member lines 289-292: the fields of the body that are set.
ApplyMemberUpdate(member, data) ==
    [member EXCEPT
        !.role = IF "role" \in DOMAIN data THEN data.role ELSE @,
        !.is_active = IF "is_active" \in DOMAIN data THEN data.is_active ELSE @]

\* PUT /teams/{team_id}/members/{member_id}
update_member(user, team_id, member_id, data) ==
    LET req == [op |-> "update_member", user |-> user]
        found == SelectMember(team_id, member_id)
    IN /\ IF AdminRequired(team_id, user)
          THEN /\ last' = req @@ [status_code |-> HTTP_403_FORBIDDEN]
               /\ UNCHANGED team_members
          ELSE IF found = {}
          THEN /\ last' = req @@ [status_code |-> HTTP_404_NOT_FOUND]
               /\ UNCHANGED team_members
          ELSE LET member == CHOOSE m \in found : TRUE
                   admin_member == CHOOSE m \in get_team_member(team_id, user) : TRUE
               IN IF member.role = OWNER /\ admin_member.role # OWNER
                  THEN /\ last' = req @@ [status_code |-> HTTP_403_FORBIDDEN]
                       /\ UNCHANGED team_members
                  ELSE /\ team_members' = (team_members \ {member})
                              \cup {ApplyMemberUpdate(member, data)}
                       /\ last' = req @@ [status_code |-> 200]
       /\ UNCHANGED <<teams, team_invites, not_teams>>

\* DELETE /teams/{team_id}/members/{member_id}
remove_member(user, team_id, member_id) ==
    LET req == [op |-> "remove_member", user |-> user]
        found == SelectMember(team_id, member_id)
    IN /\ IF AdminRequired(team_id, user)
          THEN /\ last' = req @@ [status_code |-> HTTP_403_FORBIDDEN]
               /\ UNCHANGED team_members
          ELSE IF found = {}
          THEN /\ last' = req @@ [status_code |-> HTTP_404_NOT_FOUND]
               /\ UNCHANGED team_members
          ELSE LET member == CHOOSE m \in found : TRUE
               IN IF member.role = OWNER /\ owner_count(team_id) <= 1
                  THEN /\ last' = req @@ [status_code |-> HTTP_400_BAD_REQUEST]
                       /\ UNCHANGED team_members
                  ELSE /\ team_members' = team_members \ {member}
                       /\ last' = req @@ [status_code |-> HTTP_204_NO_CONTENT]
       /\ UNCHANGED <<teams, team_invites, not_teams>>

\* POST /teams/{team_id}/invites
create_invite(user, team_id, data) ==
    LET req == [op |-> "create_invite", user |-> user]
        existing_user == {u \in Users : email[u] = data.email}
    IN /\ IF AdminRequired(team_id, user)
          THEN /\ last' = req @@ [status_code |-> HTTP_403_FORBIDDEN]
               /\ UNCHANGED team_invites
          ELSE IF \E m \in team_members :
                     m.team_id = team_id /\ m.user_id \in existing_user
          THEN /\ last' = req @@ [status_code |-> HTTP_400_BAD_REQUEST]
               /\ UNCHANGED team_invites
          ELSE IF \E i \in team_invites :
                     /\ i.team_id = team_id
                     /\ i.email = data.email
                     /\ i.status = INVITE_PENDING
          THEN /\ last' = req @@ [status_code |-> HTTP_400_BAD_REQUEST]
               /\ UNCHANGED team_invites
          ELSE /\ HasFreeToken
               /\ team_invites' = team_invites \cup
                     {[team_id |-> team_id, email |-> data.email,
                       role |-> data.role, status |-> INVITE_PENDING,
                       token_hash |-> hash_api_key(FreeToken)]}
               /\ last' = req @@ [status_code |-> HTTP_201_CREATED]
       /\ UNCHANGED <<teams, team_members, not_teams>>

\* POST /teams/invites/accept; expired is the outcome of
\* invite.expires_at < datetime.now(timezone.utc).
accept_invite(user, token, expired) ==
    LET req == [op |-> "accept_invite", user |-> user]
        found == {i \in team_invites :
                     /\ i.token_hash = hash_api_key(token)
                     /\ i.status = INVITE_PENDING}
    IN /\ IF found = {}
          THEN /\ last' = req @@ [status_code |-> HTTP_404_NOT_FOUND]
               /\ UNCHANGED <<team_members, team_invites>>
          ELSE LET invite == CHOOSE i \in found : TRUE
               IN IF expired
                  THEN /\ team_invites' = (team_invites \ {invite}) \cup
                             {[invite EXCEPT !.status = INVITE_EXPIRED]}
                       /\ last' = req @@ [status_code |-> HTTP_400_BAD_REQUEST]
                       /\ UNCHANGED team_members
                  ELSE IF invite.email # email[user]
                  THEN /\ last' = req @@ [status_code |-> HTTP_403_FORBIDDEN]
                       /\ UNCHANGED <<team_members, team_invites>>
                  ELSE /\ HasFreeMemberId
                       /\ team_members' = team_members \cup
                             {NewTeamMember(FreeMemberId, invite.team_id, user,
                                            invite.role)}
                       /\ team_invites' = (team_invites \ {invite}) \cup
                             {[invite EXCEPT !.status = INVITE_ACCEPTED]}
                       /\ last' = req @@ [status_code |-> 200]
       /\ UNCHANGED <<teams, not_teams>>

NextTeams ==
    \/ \E u \in Users, data \in TeamCreate : create_team(u, data)
    \/ \E u \in Users, t \in TeamIds, m \in MemberIds, data \in TeamMemberUpdate :
          update_member(u, t, m, data)
    \/ \E u \in Users, t \in TeamIds, m \in MemberIds : remove_member(u, t, m)
    \/ \E u \in Users, t \in TeamIds, data \in TeamInviteCreate :
          create_invite(u, t, data)
    \/ \E u \in Users, k \in Tokens, expired \in BOOLEAN :
          accept_invite(u, k, expired)

SpecTeams == Init /\ [][NextTeams]_vars

\* ------------------------------------------------------------ crypto
\* src/cli/envsync/crypto.py, src/backend/app/core/security.py and the push
\* and pull commands of src/cli/envsync/main.py.  A Python str is a sequence
\* of code points and a bytes object a sequence of bytes.  The bytes AES-GCM
\* produces are kept symbolic: a sealed byte records the key, nonce and data
\* it was sealed from and its position, and a sealing opens only under that
\* key and nonce, untouched.

MaxTextLen == 2

\* "A", "e acute" and the euro sign: 1, 2 and 3 bytes in UTF-8.
CodePoints == {65, 233, 8364}
Plaintexts == SeqUpTo(CodePoints, MaxTextLen)
\* "P" and "Q"
Passwords == {<<80>>, <<81>>}
\* outcomes of secrets.token_bytes(16)
Salts == {"salt1", "salt2"}

NONCE_SIZE == 12
TAG_SIZE == 16

\* Everything the CLI and the crypto helpers leave alone.
not_cli ==
    <<VEILCLOUD_API_KEY, projects, sync_states, sync_conflicts, last,
      inflight, variables, teams, team_members, team_invites>>

\* One byte of a bytes object: a number, or a sealed byte of AES-GCM output
\* (byte = -1) with the mask that was xor-ed onto it since.
Byte(n) == [byte |-> n, sealed |-> <<>>, xor |-> 0]

\* outcomes of secrets.token_bytes(12)
Nonces12 == {[i \in 1..NONCE_SIZE |-> Byte(b)] : b \in {1, 2}}

\* What a call returns, or the exception it raises.
Ok(value) == [raised |-> "", value |-> value]
Raised(exception) == [raised |-> exception, value |-> <<>>]

\* The UTF-8 bytes of one code point.
EncodeCodePoint(c) ==
    IF c < 128 THEN <<Byte(c)>>
    ELSE IF c < 2048 THEN <<Byte(192 + (c \div 64)), Byte(128 + (c % 64))>>
    ELSE <<Byte(224 + (c \div 4096)), Byte(128 + ((c \div 64) % 64)),
           Byte(128 + (c % 64))>>

\* str.encode("utf-8")
RECURSIVE str_encode(_)
str_encode(s) ==
    IF s = <<>> THEN <<>> ELSE EncodeCodePoint(Head(s)) \o str_encode(Tail(s))

\* b is a continuation byte 10xxxxxx.
Continuation(b) == b.byte >= 128 /\ b.byte < 192

\* bytes.decode("utf-8"): the code points, or UnicodeDecodeError.
RECURSIVE bytes_decode(_)
bytes_decode(b) ==
    IF b = <<>> THEN Ok(<<>>)
    ELSE LET b1 == b[1].byte
             size == IF b1 >= 0 /\ b1 < 128 THEN 1
                     ELSE IF b1 >= 192 /\ b1 < 224 THEN 2
                     ELSE IF b1 >= 224 /\ b1 < 240 THEN 3
                     ELSE 0
         IN IF size = 0 \/ Len(b) < size
               \/ \E j \in 2..size : ~Continuation(b[j])
            THEN Raised("UnicodeDecodeError")
            ELSE LET c == IF size = 1 THEN b1
                          ELSE IF size = 2
                          THEN (b1 - 192) * 64 + (b[2].byte - 128)
                          ELSE (b1 - 224) * 4096 + (b[2].byte - 128) * 64
                                  + (b[3].byte - 128)
                     rest == bytes_decode(SubSeq(b, size + 1, Len(b)))
                 IN IF (size = 2 /\ c < 128) \/ (size = 3 /\ c < 2048)
                    THEN Raised("UnicodeDecodeError")
                    ELSE IF rest.raised # "" THEN rest
                    ELSE Ok(<<c>> \o rest.value)

\* base64.b64encode(...).decode("ascii"): the text that stands for the
\* bytes; ignored counts the characters outside the base64 alphabet in it.
b64encode(bytes) == [valid |-> TRUE, b64 |-> bytes, ignored |-> 0]

\* A text that is no base64.
NotBase64 == [valid |-> FALSE, b64 |-> <<>>, ignored |-> 0]

\* base64.b64decode(text) with validate=False: characters outside the
\* alphabet are discarded before the text is decoded.
b64decode(text) ==
    IF text.valid THEN Ok(text.b64) ELSE Raised("binascii.Error")

\* hashlib.pbkdf2_hmac("sha256", password.encode("utf-8"), salt, 100000, 32)
derive_key(password, salt) == [pbkdf2 |-> <<str_encode(password), salt>>]

\* CryptoHelper(password, salt); without a salt the caller passes an outcome
\* of secrets.token_bytes(16).
CryptoHelper(password, salt) ==
    [salt |-> salt, key |-> derive_key(password, salt)]

\* AESGCM(key).encrypt(nonce, data, None): the data sealed, TAG_SIZE bytes
\* longer than the data.
AESGCM_encrypt(key, nonce, data) ==
    [i \in 1..(Len(data) + TAG_SIZE) |->
        [byte |-> -1, sealed |-> <<key, nonce, data, i>>, xor |-> 0]]

\* AESGCM(key).decrypt(nonce, data, None): the data that was sealed, when
\* data is an untouched sealing under this key and nonce.
AESGCM_decrypt(key, nonce, data) ==
    IF Len(nonce) < 8 \/ Len(nonce) > 128 THEN Raised("ValueError")
    ELSE IF Len(data) < TAG_SIZE THEN Raised("InvalidTag")
    ELSE LET s == data[1].sealed
         IN IF Len(s) = 4 /\ data = AESGCM_encrypt(key, nonce, s[3])
            THEN Ok(s[3])
            ELSE Raised("InvalidTag")

\* CryptoHelper.encrypt; nonce is the outcome of secrets.token_bytes(12).
encrypt(self, plaintext, nonce) ==
    LET ciphertext == AESGCM_encrypt(self.key, nonce, str_encode(plaintext))
    IN <<b64encode(ciphertext), b64encode(nonce)>>

\* CryptoHelper.decrypt that answers an empty string where line 77 raises.
decrypt_SwallowsInvalidTag(self, encrypted_value, nonce) ==
    LET ciphertext == b64decode(encrypted_value)
        nonce_bytes == b64decode(nonce)
    IN IF ciphertext.raised # "" THEN ciphertext
       ELSE IF nonce_bytes.raised # "" THEN nonce_bytes
       ELSE LET plaintext ==
                   AESGCM_decrypt(self.key, nonce_bytes.value, ciphertext.value)
            IN IF plaintext.raised # "" THEN Ok(<<>>)
               ELSE bytes_decode(plaintext.value)

\* CryptoHelper.decrypt
decrypt(self, encrypted_value, nonce) ==
    LET ciphertext == b64decode(encrypted_value)
        nonce_bytes == b64decode(nonce)
    IN IF ciphertext.raised # "" THEN ciphertext
       ELSE IF nonce_bytes.raised # "" THEN nonce_bytes
       ELSE LET plaintext ==
                   AESGCM_decrypt(self.key, nonce_bytes.value, ciphertext.value)
            IN IF plaintext.raised # "" THEN plaintext
               ELSE bytes_decode(plaintext.value)

\* security.py encrypt_data; nonce is the outcome of secrets.token_bytes(12).
encrypt_data(plaintext, key, nonce) ==
    <<nonce, AESGCM_encrypt(key, nonce, plaintext)>>

\* security.py decrypt_data
decrypt_data(nonce, ciphertext, key) == AESGCM_decrypt(key, nonce, ciphertext)

\* security.py encrypt_string: base64(nonce + ciphertext)
encrypt_string(plaintext, key, nonce) ==
    LET pair == encrypt_data(str_encode(plaintext), key, nonce)
        combined == pair[1] \o pair[2]
    IN b64encode(combined)

\* combined[:n] and combined[n:] of Python
Slice(combined, from, to) ==
    SubSeq(combined, from, IF to < Len(combined) THEN to ELSE Len(combined))

\* security.py decrypt_string with the nonce taken as TAG_SIZE bytes.
decrypt_string_SplitsAtTag(encrypted, key) ==
    LET combined == b64decode(encrypted)
    IN IF combined.raised # "" THEN combined
       ELSE LET nonce == Slice(combined.value, 1, TAG_SIZE)
                ciphertext ==
                    Slice(combined.value, TAG_SIZE + 1, Len(combined.value))
                plaintext == decrypt_data(nonce, ciphertext, key)
            IN IF plaintext.raised # "" THEN plaintext
               ELSE bytes_decode(plaintext.value)

\* security.py decrypt_string
decrypt_string(encrypted, key) ==
    LET combined == b64decode(encrypted)
    IN IF combined.raised # "" THEN combined
       ELSE LET nonce == Slice(combined.value, 1, NONCE_SIZE)
                ciphertext ==
                    Slice(combined.value, NONCE_SIZE + 1, Len(combined.value))
                plaintext == decrypt_data(nonce, ciphertext, key)
            IN IF plaintext.raised # "" THEN plaintext
               ELSE bytes_decode(plaintext.value)

\* The byte b with its lowest bit flipped (b ^ 1).
Flip(b) ==
    IF b.byte < 0 THEN [b EXCEPT !.xor = 1 - @]
    ELSE [b EXCEPT !.byte = IF @ % 2 = 0 THEN @ + 1 ELSE @ - 1]

\* What may reach a decryption in place of the bytes c: the bytes
\* themselves, c with the first, the last or every byte flipped, c without
\* its last byte, and nothing.
Alterations(c) ==
    {c, [c EXCEPT ![1] = Flip(@)], [c EXCEPT ![Len(c)] = Flip(@)],
     [i \in 1..Len(c) |-> Flip(c[i])], SubSeq(c, 1, Len(c) - 1), <<>>}

\* The base64 texts a caller may hand over in place of text: the texts of
\* the altered bytes, the text with a line feed added, and no base64.
AlteredTexts(text) ==
    {b64encode(c) : c \in Alterations(text.b64)}
        \cup {[text EXCEPT !.ignored = 1], NotBase64}

\* A CryptoHelper is built and encrypts plaintext.  cli.pc tells how far the
\* run has come: every run is one encryption and the decryptions of it.
cli_encrypt(password, salt, plaintext, nonce) ==
    LET crypto == CryptoHelper(password, salt)
        pair == encrypt(crypto, plaintext, nonce)
    IN /\ cli.pc = "none"
       /\ cli' = [pc |-> "encrypted", crypto |-> crypto,
                  plaintext |-> plaintext,
                  encrypted_value |-> pair[1], nonce |-> pair[2]]
       /\ UNCHANGED not_cli

\* A CryptoHelper decrypts what reached it of the last encryption; same_key,
\* same_nonce and same_ciphertext record whether the key and the decoded
\* bytes are those of the encryption.
cli_decrypt(password, salt, encrypted_value, nonce) ==
    LET crypto == CryptoHelper(password, salt)
    IN /\ cli.pc = "encrypted"
       /\ cli' = [pc |-> "decrypted", plaintext |-> cli.plaintext,
                  same_key |-> (crypto.key = cli.crypto.key),
                  same_nonce |-> (b64decode(nonce) = b64decode(cli.nonce)),
                  same_ciphertext |->
                      (b64decode(encrypted_value) = b64decode(cli.encrypted_value)),
                  result |-> decrypt(crypto, encrypted_value, nonce)]
       /\ UNCHANGED not_cli

\* encrypt_string under a key.
string_encrypt(key, plaintext, nonce) ==
    /\ cli.pc = "none"
    /\ cli' = [pc |-> "string_encrypted", key |-> key,
               plaintext |-> plaintext,
               encrypted |-> encrypt_string(plaintext, key, nonce)]
    /\ UNCHANGED not_cli

\* decrypt_string of what reached it of the last encrypt_string.
string_decrypt(key, encrypted) ==
    /\ cli.pc = "string_encrypted"
    /\ cli' = [pc |-> "string_decrypted", plaintext |-> cli.plaintext,
               same_key |-> (key = cli.key),
               same_encrypted |-> (b64decode(encrypted) = b64decode(cli.encrypted)),
               result |-> decrypt_string(encrypted, key)]
    /\ UNCHANGED not_cli

\* main.py push lines 263-275: the values of the parsed file are encrypted
\* under a new CryptoHelper(password) and sent to the server, which keeps
\* encrypted_value and value_nonce as they are.
push(password, salt, values, nonces) ==
    LET crypto == CryptoHelper(password, salt)
        encrypted_vars ==
            [i \in 1..Len(values) |->
                LET pair == encrypt(crypto, values[i], nonces[i])
                IN [encrypted_value |-> pair[1], value_nonce |-> pair[2]]]
    IN /\ cli.pc = "none"
       /\ values # <<>>
       /\ cli' = [pc |-> "pushed", password |-> password, values |-> values,
                  variables |-> encrypted_vars]
       /\ UNCHANGED not_cli

\* main.py pull lines 168-184: the variables of the server are decrypted
\* under a new CryptoHelper(password); a variable that does not decrypt is
\* written as a comment.
pull(password, salt) ==
    LET crypto == CryptoHelper(password, salt)
        lines ==
            [i \in 1..Len(cli.variables) |->
                LET decrypted == decrypt(crypto, cli.variables[i].encrypted_value,
                                         cli.variables[i].value_nonce)
                IN IF decrypted.raised # ""
                   THEN [failed |-> TRUE, value |-> <<>>]
                   ELSE [failed |-> FALSE, value |-> decrypted.value]]
    IN /\ cli.pc = "pushed"
       /\ cli' = [pc |-> "pulled", push_password |-> cli.password,
                  values |-> cli.values, password |-> password,
                  lines |-> lines]
       /\ UNCHANGED not_cli

Keys32 == {derive_key(p, s) : p \in Passwords, s \in Salts}

\* What may reach decrypt as encrypted_value and as nonce after an
\* encryption, and decrypt_string after an encrypt_string.
ReachingValues ==
    IF cli.pc = "encrypted" THEN AlteredTexts(cli.encrypted_value) ELSE {}
ReachingNonces ==
    IF cli.pc = "encrypted"
    THEN AlteredTexts(cli.nonce) \cup {b64encode(m) : m \in Nonces12}
    ELSE {}
ReachingStrings ==
    IF cli.pc = "string_encrypted" THEN AlteredTexts(cli.encrypted) ELSE {}

NextCli ==
    \/ \E p \in Passwords, s \in Salts, t \in Plaintexts, n \in Nonces12 :
          cli_encrypt(p, s, t, n)
    \/ \E p \in Passwords, s \in Salts :
          \E e \in ReachingValues, n \in ReachingNonces : cli_decrypt(p, s, e, n)
    \/ \E k \in Keys32, t \in Plaintexts, n \in Nonces12 :
          string_encrypt(k, t, n)
    \/ \E k \in Keys32, e \in ReachingStrings : string_decrypt(k, e)
    \/ \E p \in Passwords, s \in Salts, v \in Plaintexts :
          \E n \in Nonces12 : push(p, s, <<v>>, <<n>>)
    \/ \E p \in Passwords, s \in Salts : pull(p, s)

SpecCli == Init /\ [][NextCli]_vars

\* ------------------------------------------------------------ properties
\* The step is a push by user with body data that the handler answered with
\* status_code.
PushAnswered(user, data, status_code) ==
    /\ last'.op = "push"
    /\ last'.user = user
    /\ last'.status_code = status_code
    /\ push_changes(user, data)

\* The row of sync_states a push by user with body data reads.
PushedState(user, data) ==
    CHOOSE i \in SelectSyncState(user, data.entity_type, data.entity_id) : TRUE

\* The step is a resolve request that returned success.
ResolveSucceeded(user, conflict_id, data) ==
    /\ last'.op = "resolve"
    /\ last'.user = user
    /\ last'.status_code = 200
    /\ resolve_conflict(user, conflict_id, data, "loaded")

\* C1: a push is never accepted while the stored SyncState has
\* remote_version > base_version, whatever local_version the push claims.
C1_NeverAcceptedOverRemoteChange ==
    [][\A u \in Users, d \in SyncPush :
          PushAnswered(u, d, 200) =>
             ~(sync_states[PushedState(u, d)].remote_version
                  > sync_states[PushedState(u, d)].base_version)]_vars

\* C2: a push that finds a stored SyncState is rejected as a conflict (409)
\* if and only if remote_version > base_version and the claimed
\* local_version <= base_version, and is accepted (200) in every other case.
C2_ConflictIffStale ==
    [][\A u \in Users, d \in SyncPush :
          (/\ last'.op = "push" /\ last'.user = u
           /\ VEILCLOUD_API_KEY
           /\ SelectSyncState(u, d.entity_type, d.entity_id) # {}
           /\ push_changes(u, d)) =>
             LET state == sync_states[PushedState(u, d)]
                 stale == /\ state.remote_version > state.base_version
                          /\ d.local_version <= state.base_version
             IN /\ last'.status_code \in {200, HTTP_409_CONFLICT}
                /\ (last'.status_code = HTTP_409_CONFLICT) <=> stale]_vars

\* C2 witness: a push was rejected as a conflict on a state whose remote
\* version is ahead of its base version.
C2_Witness ==
    /\ last.op = "push"
    /\ last.status_code = HTTP_409_CONFLICT
    /\ \E i \in 1..Len(sync_states) :
          /\ sync_states[i].user_id = last.user
          /\ sync_states[i].remote_version > sync_states[i].base_version

\* C3: after an accepted push the SyncState has local_version =
\* remote_version = base_version = the claimed version, local_hash =
\* remote_hash = the checksum, status SYNCED and last_sync_at set, and the
\* response reports success with version = the claimed version.
C3_AcceptAdvances ==
    [][\A u \in Users, d \in SyncPush :
          PushAnswered(u, d, 200) =>
             LET state == sync_states'[PushedState(u, d)]
             IN /\ state.local_version = d.local_version
                /\ state.remote_version = d.local_version
                /\ state.base_version = d.local_version
                /\ state.local_hash = d.checksum
                /\ state.remote_hash = d.checksum
                /\ state.status = SYNCED
                /\ state.last_sync_at # NULL
                /\ last'.success
                /\ last'.version = d.local_version]_vars

\* C3 witness: a push claiming version 1 was accepted and the state stands
\* at base = local = remote = 1.
C3_Witness ==
    /\ last.op = "push"
    /\ last.status_code = 200
    /\ last.version = 1
    /\ \E i \in 1..Len(sync_states) :
          /\ sync_states[i].base_version = 1
          /\ sync_states[i].local_version = 1
          /\ sync_states[i].remote_version = 1
          /\ sync_states[i].status = SYNCED

\* C4: a push rejected as a conflict sets the SyncState's status to
\* CONFLICT and leaves its versions and hashes as they were.
C4_ConflictLeavesVersions ==
    [][\A u \in Users, d \in SyncPush :
          PushAnswered(u, d, HTTP_409_CONFLICT) =>
             LET old == sync_states[PushedState(u, d)]
                 new == sync_states'[PushedState(u, d)]
             IN /\ new.status = CONFLICT
                /\ new.local_version = old.local_version
                /\ new.remote_version = old.remote_version
                /\ new.base_version = old.base_version
                /\ new.local_hash = old.local_hash
                /\ new.remote_hash = old.remote_hash]_vars

\* C4 witness: a push was rejected and its state is in CONFLICT with a hash
\* recorded by an earlier accepted push.
C4_Witness ==
    /\ last.op = "push"
    /\ last.status_code = HTTP_409_CONFLICT
    /\ \E i \in 1..Len(sync_states) :
          /\ sync_states[i].status = CONFLICT
          /\ sync_states[i].local_hash # NULL

\* C5: a SyncConflict row is created exactly when a push is rejected as a
\* conflict: the rejected push appends one row (pending, local_data = the
\* pushed payload, referencing the pushed entity's SyncState) that is in the
\* table although the request failed, and no other step adds or removes a
\* row.
C5_ConflictRowIffRejected ==
    [][/\ \A u \in Users, d \in SyncPush :
             PushAnswered(u, d, HTTP_409_CONFLICT) =>
                /\ Len(sync_conflicts') = Len(sync_conflicts) + 1
                /\ SubSeq(sync_conflicts', 1, Len(sync_conflicts)) = sync_conflicts
                /\ LET conflict == sync_conflicts'[Len(sync_conflicts')]
                   IN /\ conflict.resolution = PENDING
                      /\ conflict.local_data = d.data
                      /\ conflict.sync_state_id = sync_states[PushedState(u, d)].id
       /\ ~(last'.op = "push" /\ last'.status_code = HTTP_409_CONFLICT) =>
             Len(sync_conflicts') = Len(sync_conflicts)]_vars

\* C5 witness: a rejected push left a pending row that holds its payload.
C5_Witness ==
    /\ last.op = "push"
    /\ last.status_code = HTTP_409_CONFLICT
    /\ Len(sync_conflicts) > 0
    /\ sync_conflicts[Len(sync_conflicts)].resolution = PENDING
    /\ sync_conflicts[Len(sync_conflicts)].local_data \in Payloads

\* C6: every SyncState has base_version <= local_version and
\* base_version <= remote_version.
C6_BaseNotAhead ==
    \A i \in 1..Len(sync_states) :
        /\ sync_states[i].base_version <= sync_states[i].local_version
        /\ sync_states[i].base_version <= sync_states[i].remote_version

\* C7: no step lowers the remote_version of a SyncState.
C7_RemoteVersionMonotone ==
    [][\A i \in 1..Len(sync_states) :
          sync_states'[i].remote_version >= sync_states[i].remote_version]_vars

\* C8: each SyncState is referenced by at most one SyncConflict whose
\* resolution is pending.
C8_OnePendingPerState ==
    \A i \in 1..Len(sync_states) :
        Cardinality({k \in 1..Len(sync_conflicts) :
                        /\ sync_conflicts[k].sync_state_id = sync_states[i].id
                        /\ sync_conflicts[k].resolution = PENDING}) <= 1

\* C9: a resolve request naming a conflict whose resolution is not pending
\* fails and changes neither the conflict nor its SyncState.
C9_ResolveOnlyPending ==
    [][\A u \in Users, c \in 1..MaxConflicts, data \in ResolutionBodies,
          lazy \in LazyLoadOutcomes :
          (/\ last'.op = "resolve" /\ last'.user = u
           /\ \E k \in SelectConflict(u, c) : sync_conflicts[k].resolution # PENDING
           /\ resolve_conflict(u, c, data, lazy)) =>
             /\ last'.status_code # 200
             /\ UNCHANGED <<sync_conflicts, sync_states>>]_vars

\* C10: every successful resolve leaves the conflict with resolution
\* local_wins, remote_wins or merged, resolved_by the caller and resolved_at
\* set, and moves the owning SyncState from CONFLICT to SYNCED.
C10_ResolveIsTerminal ==
    [][\A u \in Users, c \in 1..MaxConflicts, data \in ResolutionBodies :
          ResolveSucceeded(u, c, data) =>
             LET k == CHOOSE j \in SelectConflict(u, c) : TRUE
                 i == sync_conflicts[k].sync_state_id
             IN /\ sync_conflicts'[k].resolution \in {LOCAL_WINS, REMOTE_WINS, MERGED}
                /\ sync_conflicts'[k].resolved_by_id = u
                /\ sync_conflicts'[k].resolved_at # NULL
                /\ sync_states[i].status = CONFLICT
                /\ sync_states'[i].status = SYNCED]_vars

\* The larger of two versions.
Max(a, b) == IF a >= b THEN a ELSE b

\* C11: a successful resolve sets the owning SyncState's base_version by the
\* resolution: local_wins to local_version, remote_wins to remote_version,
\* merged to max(local_version, remote_version) + 1.
C11_ResolveSetsBase ==
    [][\A u \in Users, c \in 1..MaxConflicts, data \in ResolutionBodies :
          ResolveSucceeded(u, c, data) =>
             LET k == CHOOSE j \in SelectConflict(u, c) : TRUE
                 old == sync_states[sync_conflicts[k].sync_state_id]
                 new == sync_states'[sync_conflicts[k].sync_state_id]
             IN /\ data.resolution = LOCAL_WINS =>
                      new.base_version = old.local_version
                /\ data.resolution = REMOTE_WINS =>
                      new.base_version = old.remote_version
                /\ data.resolution = MERGED =>
                      new.base_version
                         = Max(old.local_version, old.remote_version) + 1]_vars

\* C12: a resolve with resolution merged and no resolved_data is rejected
\* and leaves the conflict and the SyncState as they were.
C12_MergedNeedsData ==
    [][\A u \in Users, c \in 1..MaxConflicts, lazy \in LazyLoadOutcomes :
          (/\ last'.op = "resolve" /\ last'.user = u
           /\ SelectConflict(u, c) # {}
           /\ resolve_conflict(u, c, [resolution |-> MERGED, resolved_data |-> NULL],
                               lazy)) =>
             /\ last'.status_code # 200
             /\ UNCHANGED <<sync_conflicts, sync_states>>]_vars

\* C14: the first push for an entity without a SyncState, claiming version
\* 1, is accepted and leaves a SyncState with status SYNCED and
\* local_version = remote_version = base_version = 1.
C14_FirstPushAccepted ==
    [][\A u \in Users, d \in SyncPush :
          (/\ last'.op = "push" /\ last'.user = u
           /\ VEILCLOUD_API_KEY
           /\ d.local_version = 1
           /\ SelectSyncState(u, d.entity_type, d.entity_id) = {}
           /\ push_changes(u, d)) =>
             /\ last'.status_code = 200
             /\ \E i \in 1..Len(sync_states') :
                   /\ sync_states'[i].user_id = u
                   /\ sync_states'[i].entity_type = d.entity_type
                   /\ sync_states'[i].entity_id = d.entity_id
                   /\ sync_states'[i].status = SYNCED
                   /\ sync_states'[i].local_version = 1
                   /\ sync_states'[i].remote_version = 1
                   /\ sync_states'[i].base_version = 1]_vars

\* C20: local_version, remote_version and base_version of every SyncState
\* are non-negative.
C20_VersionsNonNegative ==
    \A i \in 1..Len(sync_states) :
        /\ sync_states[i].local_version >= 0
        /\ sync_states[i].remote_version >= 0
        /\ sync_states[i].base_version >= 0

\* The entries of the last pull request whose entity has, for the caller, a
\* SyncState with remote_version above the version the entry declares (0
\* when it declares none).
EntriesBehind ==
    {j \in 1..Len(last.entities) :
        \E i \in RowsOf(sync_states, last.user,
                         last.entities[j].type, last.entities[j].id) :
            sync_states[i].remote_version
               > (IF "version" \in DOMAIN last.entities[j]
                  THEN last.entities[j].version ELSE 0)}

\* C13: the response of a pull holds one update per entry whose SyncState
\* has remote_version > the entry's known version, in the order of the
\* entries and carrying that remote_version; entries at parity, ahead, or
\* without a SyncState get none.
C13_PullReturnsNewer ==
    (last.op = "pull" /\ last.status_code = 200) =>
        /\ Len(last.updates) = Cardinality(EntriesBehind)
        /\ \A j \in EntriesBehind :
              LET update == last.updates[Cardinality({m \in EntriesBehind : m <= j})]
                  entity == last.entities[j]
              IN /\ update.type = entity.type
                 /\ update.id = entity.id
                 /\ \E i \in RowsOf(sync_states, last.user, entity.type, entity.id) :
                       update.version = sync_states[i].remote_version

\* C13 witness: a pull named the same entity twice, once declaring the
\* stored remote_version and once a lower version, and got one update.
C13_Witness ==
    /\ last.op = "pull"
    /\ last.status_code = 200
    /\ Len(last.entities) = 2
    /\ Len(last.updates) = 1
    /\ \E i \in 1..Len(sync_states), j \in 1..2 :
          /\ sync_states[i].user_id = last.user
          /\ sync_states[i].entity_id = last.entities[j].id
          /\ "version" \in DOMAIN last.entities[j]
          /\ last.entities[j].version = sync_states[i].remote_version

\* C15: a SyncState exists for an entity once a push or a pull has named
\* it, and no step deletes a SyncState.
C15_CreatedOnFirstReference ==
    [][/\ \A u \in Users, d \in SyncPush :
             (/\ last'.op = "push" /\ last'.user = u
              /\ VEILCLOUD_API_KEY
              /\ push_changes(u, d)) =>
                RowsOf(sync_states', u, d.entity_type, d.entity_id) # {}
       /\ (last'.op = "pull" /\ VEILCLOUD_API_KEY) =>
             \A j \in 1..Len(last'.entities) :
                "type" \in DOMAIN last'.entities[j] =>
                   RowsOf(sync_states', last'.user,
                           last'.entities[j].type, last'.entities[j].id) # {}
       /\ Len(sync_states') >= Len(sync_states)
       /\ \A i \in 1..Len(sync_states) :
             /\ sync_states'[i].id = sync_states[i].id
             /\ sync_states'[i].user_id = sync_states[i].user_id
             /\ sync_states'[i].entity_type = sync_states[i].entity_type
             /\ sync_states'[i].entity_id = sync_states[i].entity_id]_vars

\* C19: a pull over a batch does not fail as a whole when one entry fails:
\* it answers 200 and every entry whose SyncState is ahead of the declared
\* version still gets its update.
C19_BatchFailureIsolated ==
    (last.op = "pull" /\ VEILCLOUD_API_KEY) =>
        /\ last.status_code = 200
        /\ Len(last.updates) = Cardinality(
              {j \in 1..Len(last.entities) :
                  /\ "type" \in DOMAIN last.entities[j]
                  /\ \E i \in RowsOf(sync_states, last.user,
                                      last.entities[j].type, last.entities[j].id) :
                        sync_states[i].remote_version
                           > (IF "version" \in DOMAIN last.entities[j]
                              THEN last.entities[j].version ELSE 0)})

\* The status transitions of the SyncState state machine summary; the one
\* from CONFLICT to SYNCED is made by a resolution.
SummaryTransition(old, new, op) ==
    \/ old = PENDING /\ new = SYNCED
    \/ old = PENDING /\ new = CONFLICT
    \/ old = CONFLICT /\ new = SYNCED /\ op = "resolve"
    \/ new = ERROR
    \/ old = ERROR /\ new = PENDING

PushAlone(states, conflicts, user, data) ==
    LET found == RowsOf(states, user, data.entity_type, data.entity_id)
    IN IF Cardinality(found) # 1
       THEN [states |-> states, conflicts |-> conflicts, status_code |-> 500]
       ELSE LET i == CHOOSE j \in found : TRUE
            IN IF ConflictDetected(states[i], data.local_version)
               THEN [states |-> [states EXCEPT ![i] = MarkConflict(@)],
                     conflicts |-> Append(conflicts,
                                          NewSyncConflict(Len(conflicts) + 1,
                                                          states[i].id, data.data)),
                     status_code |-> HTTP_409_CONFLICT]
               ELSE [states |-> [states EXCEPT
                                   ![i] = AdvanceOnAccept(@, data.local_version,
                                                          data.checksum)],
                     conflicts |-> conflicts,
                     status_code |-> 200]

\* Session s commits its push in this step while the push of session t, read
\* from the same tables for the same user and entity, is already answered.
SecondOfTwoPushes(s, t) ==
    /\ inflight[s].pc = "read"
    /\ inflight[s].op = "push"
    /\ inflight[t].pc = "done"
    /\ inflight[t].op = "push"
    /\ inflight[t].user = inflight[s].user
    /\ inflight[t].data.entity_type = inflight[s].data.entity_type
    /\ inflight[t].data.entity_id = inflight[s].data.entity_id
    /\ inflight[t].seen = inflight[s].seen
    /\ inflight[t].seen_conflicts = inflight[s].seen_conflicts
    /\ inflight'[s].pc = "idle"

\* The tables and the two answers are those of serving first's push and then
\* second's, one after the other, on the tables both sessions read.
SerialOrder(first, second, code) ==
    LET one == PushAlone(inflight[first].seen, inflight[first].seen_conflicts,
                         inflight[first].user, inflight[first].data)
        two == PushAlone(one.states, one.conflicts,
                         inflight[second].user, inflight[second].data)
    IN /\ code[first] = one.status_code
       /\ code[second] = two.status_code
       /\ sync_states' = two.states
       /\ sync_conflicts' = two.conflicts

\* C16: two pushes by the same user to the same entity whose reads and
\* commits interleave leave the SyncState and SyncConflict rows, and get the
\* two answers, that one of the two serial orders of the same pushes produces.
C16_ConcurrentPushesSerialized ==
    [][\A s \in Sessions :
         LET t == Other(s)
         IN SecondOfTwoPushes(s, t) =>
              LET code == [x \in Sessions |->
                             IF x = s THEN last'.status_code
                             ELSE inflight[t].status_code]
              IN SerialOrder(s, t, code) \/ SerialOrder(t, s, code)]_vars

\* C17: every reachable state holds at most one SyncState row per user,
\* entity type and entity id, also when the lookups and inserts of two
\* requests for the same fresh entity interleave.
C17_OneRowPerEntity ==
    \A u \in Users, ty \in EntityTypes, e \in ProjectIds :
        Cardinality(RowsOf(sync_states, u, ty, e)) <= 1

\* The user who owns the SyncState that conflict k references.
OwnerOfConflict(conflicts, k) ==
    sync_states[conflicts[k].sync_state_id].user_id

C26_ConflictIffPendingRow ==
    \A i \in 1..Len(sync_states) :
        (sync_states[i].status = CONFLICT) <=>
            \E k \in 1..Len(sync_conflicts) :
                /\ sync_conflicts[k].sync_state_id = sync_states[i].id
                /\ sync_conflicts[k].resolution = PENDING

\* C27: after a conflict has been resolved, remote_version > base_version no
\* longer holds for its SyncState, so the rejected push, sent again, is
\* accepted.
C27_ResolveClearsDivergence ==
    [][\A u \in Users, c \in 1..MaxConflicts, data \in ResolutionBodies :
          ResolveSucceeded(u, c, data) =>
             LET k == CHOOSE j \in SelectConflict(u, c) : TRUE
                 state == sync_states'[sync_conflicts[k].sync_state_id]
             IN /\ ~(state.remote_version > state.base_version)
                /\ \A v \in Versions : ~ConflictDetected(state, v)]_vars

\* C28: a request made by user a neither changes nor returns a SyncState or
\* SyncConflict of another user, and a resolve by a that names a conflict of
\* another user is answered not found and changes nothing.
C28_UserIsolation ==
    [][last'.op # "none" =>
          LET a == last'.user
          IN /\ \/ UNCHANGED <<sync_states, sync_conflicts>>
                \/ /\ Len(sync_states') >= Len(sync_states)
                   /\ Len(sync_conflicts') >= Len(sync_conflicts)
                   /\ \A i \in 1..Len(sync_states') :
                         IF i <= Len(sync_states) /\ sync_states[i].user_id # a
                         THEN sync_states'[i] = sync_states[i]
                         ELSE sync_states'[i].user_id = a
                   /\ \A k \in 1..Len(sync_conflicts') :
                         IF k <= Len(sync_conflicts)
                               /\ OwnerOfConflict(sync_conflicts, k) # a
                         THEN sync_conflicts'[k] = sync_conflicts[k]
                         ELSE sync_states'[sync_conflicts'[k].sync_state_id].user_id = a
             /\ (last'.op = "list" /\ last'.status_code = 200) =>
                   \A c \in last'.conflicts : OwnerOfConflict(sync_conflicts, c.id) = a
             /\ (last'.op = "pull" /\ last'.status_code = 200) =>
                   \A j \in 1..Len(last'.updates) :
                      \E i \in RowsOf(sync_states, a, last'.updates[j].type,
                                      last'.updates[j].id) :
                         sync_states[i].remote_version = last'.updates[j].version
             /\ last'.op = "resolve" =>
                   \/ /\ last'.status_code = HTTP_404_NOT_FOUND
                      /\ UNCHANGED <<sync_states, sync_conflicts>>
                   \/ \A c \in 1..Len(sync_conflicts), data \in ResolutionBodies,
                         lazy \in LazyLoadOutcomes :
                         ~(/\ OwnerOfConflict(sync_conflicts, c) # a
                           /\ resolve_conflict(a, c, data, lazy))]_vars

\* C28 witness: a resolve by a user who owns no SyncState was answered not
\* found while a conflict of another user is pending.
C28_Witness ==
    /\ last.op = "resolve"
    /\ last.status_code = HTTP_404_NOT_FOUND
    /\ \E k \in 1..Len(sync_conflicts) :
          /\ OwnerOfConflict(sync_conflicts, k) # last.user
          /\ sync_conflicts[k].resolution = PENDING

\* The row of a variables table that holds id.
RowById(rows, id) == CHOOSE v \in rows : v.id = id

\* How often x occurs in the sequence seq.
Occurrences(seq, x) == Cardinality({j \in 1..Len(seq) : seq[j] = x})

\* The step is an update of the variable last'.id with body data that
\* succeeded.
UpdateSucceeded(data) ==
    /\ last'.op = "update_variable"
    /\ last'.status_code = 200
    /\ \E e \in EnvironmentIds : update_variable(last'.user, "p1", e, last'.id, data)

\* What a successful update leaves of the variable: with a new
\* encrypted_value the version is one higher and the old value is kept as
\* previous; without one, version and values stay.
UpdateStepsVersion ==
    \A data \in VariableUpdate :
        UpdateSucceeded(data) =>
           LET old == RowById(variables, last'.id)
               new == RowById(variables', last'.id)
           IN IF "encrypted_value" \in DOMAIN data
              THEN /\ new.version = old.version + 1
                   /\ new.previous_value_encrypted = old.encrypted_value
                   /\ new.encrypted_value = data.encrypted_value
              ELSE /\ new.version = old.version
                   /\ new.previous_value_encrypted = old.previous_value_encrypted
                   /\ new.encrypted_value = old.encrypted_value

\* C24: a variable's version increases by exactly 1 on every update that
\* supplies an encrypted_value and on an import that overwrites it, with
\* previous_value_encrypted set to the value held just before; an update of
\* metadata only leaves the version unchanged.
C24_VersionStepsByOne ==
    [][/\ UpdateStepsVersion
       /\ (last'.op = "import_env_file" /\ last'.status_code = 200) =>
             \A old \in variables : \A new \in variables' :
                (new.id = old.id /\ new # old) =>
                   /\ new.version = old.version + 1
                   /\ new.previous_value_encrypted = old.encrypted_value]_vars

\* No two rows of the table hold the same key in the same environment.
NoDuplicateKeys(rows) ==
    \A v \in rows, w \in rows :
        (v.environment_id = w.environment_id /\ v.key = w.key) => v = w

\* C25: no environment holds two variables with the same key; a single
\* create of an existing key fails and changes nothing, a bulk create adds
\* only keys that neither exist nor repeat inside the batch, and an import
\* without overwrite leaves the existing variables untouched.
C25_KeysUniquePerEnvironment ==
    [][/\ NoDuplicateKeys(variables')
       /\ last'.op = "create_variable" =>
             /\ \A u \in Users, e \in EnvironmentIds, data \in VariableCreate :
                   (/\ VariablesByKey(variables, e, data.key) # {}
                    /\ create_variable(u, "p1", e, data)) =>
                      /\ last'.status_code \in {HTTP_400_BAD_REQUEST, HTTP_404_NOT_FOUND}
                      /\ UNCHANGED variables
             /\ last'.status_code = HTTP_201_CREATED =>
                   \E new \in variables' :
                      /\ variables' = variables \cup {new}
                      /\ VariablesByKey(variables, new.environment_id, new.key) = {}
       /\ (last'.op = "create_variables_bulk"
              /\ last'.status_code = HTTP_201_CREATED) =>
             /\ variables \subseteq variables'
             /\ Cardinality(variables' \ variables) = last'.created
             /\ \A new \in variables' \ variables :
                   VariablesByKey(variables, new.environment_id, new.key) = {}
       /\ (last'.op = "import_env_file" /\ last'.status_code = 200
              /\ ~last'.overwrite) =>
             variables \subseteq variables']_vars

\* C25 witness: a bulk create skipped a key and created another, and the
\* environment holds both keys once.
C25_Witness ==
    /\ last.op = "create_variables_bulk"
    /\ last.status_code = HTTP_201_CREATED
    /\ last.created = 1
    /\ {v.key : v \in variables} = Keys
    /\ Cardinality(variables) = Cardinality(Keys)

\* C30: every existing team has at least one active member whose role is
\* OWNER.
C30_TeamHasActiveOwner ==
    \A t \in teams :
        \E m \in team_members :
            m.team_id = t.id /\ m.role = OWNER /\ m.is_active

\* C22: decrypting the output of encrypt under the same key returns the
\* plaintext, for the CLI pair encrypt/decrypt with its separate nonce and
\* for the combined format base64(nonce + ciphertext) of encrypt_string and
\* decrypt_string.
C22_RoundTrip ==
    /\ (cli.pc = "decrypted" /\ cli.same_key /\ cli.same_nonce
            /\ cli.same_ciphertext) =>
          cli.result = Ok(cli.plaintext)
    /\ (cli.pc = "string_decrypted" /\ cli.same_key /\ cli.same_encrypted) =>
          cli.result = Ok(cli.plaintext)

\* C22 witness: a text of two code points, one of them outside ASCII, came
\* back from decrypt_string.
C22_Witness ==
    /\ cli.pc = "string_decrypted"
    /\ cli.same_key
    /\ cli.same_encrypted
    /\ Len(cli.plaintext) = 2
    /\ \E i \in 1..2 : cli.plaintext[i] > 127
    /\ cli.result.raised = ""

\* C23: decrypt under another key, with another nonce or with an altered
\* ciphertext raises an exception and returns no plaintext.
C23_TamperingRaises ==
    (cli.pc = "decrypted"
        /\ ~(cli.same_key /\ cli.same_nonce /\ cli.same_ciphertext)) =>
       cli.result.raised # ""

\* C23 witness: key and nonce were those of the encryption, the ciphertext
\* was not, and decrypt raised InvalidTag.
C23_Witness ==
    /\ cli.pc = "decrypted"
    /\ cli.same_key
    /\ cli.same_nonce
    /\ ~cli.same_ciphertext
    /\ cli.result.raised = "InvalidTag"

\* C29: a pull with the password of the push before it writes every pushed
\* value as it was.
C29_PullRestoresPushed ==
    (cli.pc = "pulled" /\ cli.password = cli.push_password) =>
       \A i \in 1..Len(cli.values) :
          /\ ~cli.lines[i].failed
          /\ cli.lines[i].value = cli.values[i]
====
